---- MODULE Spec2Model ----
(***************************************************************************)
(* Model of the job orchestration core of video_workflow_server.py:        *)
(* WorkflowServer (jobs, job_queue, processing_tasks), its worker          *)
(* coroutines, the per-job _process_job task, the cancel_job API, the      *)
(* result route and the _cleanup_task sweeper with the files it walks.     *)
(*                                                                         *)
(* Scheduling is asyncio's: one coroutine runs at a time and can be        *)
(* interleaved with others only at an await that really suspends.  Every   *)
(* action below is the code between two such suspension points.            *)
(* asyncio.CancelledError derives from BaseException (Python >= 3.8), so   *)
(* "except Exception" does not catch it.                                   *)
(***************************************************************************)
EXTENDS Integers, Sequences, FiniteSets, TLC

\* ---------------------------------------------------------------- bounds
MaxJobs == 2          \* job identifiers that create_job can hand out
MaxWorkers == 2       \* largest max_concurrent_jobs the server is started with
MaxCancelCalls == 1   \* cancel_job requests that can be in flight at once
PollTicks == 1        \* instants at which the poll loop's clock is observed
max_retries == 1      \* config["max_retries"] the server is constructed with
MaxTicks == 2         \* advances of the clock

\* ------------------------------------------------------ program constants
max_wait == 300       \* _wait_for_completion: max_wait
cleanup_days == 7     \* CONFIG["cleanup_days"]

JobIds == 1..MaxJobs
WorkerIds == 1..MaxWorkers
CallIds == 1..MaxCancelCalls

\* JobStatus
PENDING == "pending"
UPLOADING == "uploading"
PROCESSING == "processing"
COMPLETED == "completed"
FAILED == "failed"
CANCELLED == "cancelled"

JobStatus == {PENDING, UPLOADING, PROCESSING, COMPLETED, FAILED, CANCELLED}

\* the statuses cancel_job refuses
Terminal == {COMPLETED, FAILED, CANCELLED}

\* None for the Optional fields of Job
None == "none"

VARIABLES
    nworkers,          \* config["max_concurrent_jobs"]
    jobs,              \* WorkflowServer.jobs : job_id -> Job
    job_queue,         \* WorkflowServer.job_queue (asyncio.Queue, FIFO)
    processing_tasks,  \* WorkflowServer.processing_tasks : job_id -> task
    worker,            \* position of each _worker coroutine
    task,              \* the _process_job task each worker created last
    cancel_call,       \* position of each DELETE /api/jobs/{job_id} request
    announced,         \* job ids that POST /api/jobs has answered with
    \* history variables: they record what happened and steer nothing
    attempts,          \* per job: how often _process_job was entered
    cancel_called,     \* job ids cancel_job was ever called with
    upload_ok,         \* job ids one of whose uploads succeeded
    delay_cancelled,   \* job ids cancel_job was called with during a retry delay
    cancel_ok,         \* job ids cancel_job has returned True for
    \* the file system, the clock and the result route
    files,             \* the files under upload_dir and output_dir -> st_mtime
    time,              \* time.time(), in seconds since the server started
    result_reply,      \* what GET /api/jobs/{job_id}/result is answering with
    cleanup            \* position of the _cleanup_task coroutine

svars == <<nworkers, jobs, job_queue, processing_tasks, worker, task>>
avars == <<cancel_call, announced>>
hvars == <<attempts, cancel_called, upload_ok, delay_cancelled, cancel_ok>>
evars == <<files, time, result_reply, cleanup>>
vars == <<nworkers, jobs, job_queue, processing_tasks, worker, task,
          cancel_call, announced,
          attempts, cancel_called, upload_ok, delay_cancelled, cancel_ok,
          files, time, result_reply, cleanup>>

\* ------------------------------------------------------------- helpers
Min(a, b) == IF a < b THEN a ELSE b

InQueue(j) == \E i \in 1..Len(job_queue) : job_queue[i] = j

\* Job(...) as create_job builds it: dataclass defaults for the rest
NewJob ==
    [status |-> PENDING, progress |-> 0, comfy_prompt_id |-> None,
     result_path |-> FALSE, error_message |-> None,
     started_at |-> FALSE, completed_at |-> FALSE, retry_count |-> 0]

\* a request slot: idle, suspended in the backend DELETE ("delete"), or
\* cancel_job has returned and the route is about to answer
NoCall == [pc |-> "idle", job |-> 0]

NoTask == [pc |-> "none", job |-> 0, elapsed |-> 0]

\* no result request is being answered
NoReply == [job |-> 0, code |-> "none"]

\* a file is written: it exists afterwards, with st_mtime the time of the
\* write.  A file is <<directory, job>>: the upload create_job stored for the
\* job, or the result _download_result stored as "{job.id}_{filename}"; a
\* download that fails leaves no file.
WriteFile(fs, f, t) ==
    [x \in DOMAIN fs \cup {f} |-> IF x = f THEN t ELSE fs[x]]

\* task.done()
TaskDone(w) == task[w].pc \in {"none", "done", "cancelled"}

\* job.progress = 50 + min(30, elapsed / max_wait * 30), the clock being
\* observed at PollTicks instants of max_wait / PollTicks seconds each
PollProgress(ticks) ==
    50 + Min(30, ((ticks * (max_wait \div PollTicks)) * 30) \div max_wait)

\* start with range(max_concurrent_jobs + 1)
StartedWorkers_OneMore(n) == 1..(n + 1)

\* start: for i in range(max_concurrent_jobs): create_task(_worker(i + 1))
StartedWorkers(n) == 1..n

Init ==
    /\ nworkers \in 1..MaxWorkers
    /\ jobs = << >>
    /\ job_queue = << >>
    /\ processing_tasks = << >>
    /\ worker = [w \in WorkerIds |-> IF w \in StartedWorkers(nworkers) THEN "get" ELSE "off"]
    /\ task = [w \in WorkerIds |-> NoTask]
    /\ cancel_call = [c \in CallIds |-> NoCall]
    /\ announced = {}
    /\ attempts = [j \in JobIds |-> 0]
    /\ cancel_called = {}
    /\ upload_ok = {}
    /\ delay_cancelled = {}
    /\ cancel_ok = {}
    /\ files = << >>
    /\ time = 0
    /\ result_reply = NoReply
    /\ cleanup = "run"

\* ------------------------------------------------------------ create_job
\* jobs[job_id] = job; job_queue.put(job_id).  uuid4 gives a fresh
\* identifier; identifiers are opaque, so the next unused one stands for it
CreateJob(j) ==
    /\ j \notin DOMAIN jobs
    /\ \A k \in JobIds : k < j => k \in DOMAIN jobs
    /\ jobs' = [k \in DOMAIN jobs \cup {j} |-> IF k = j THEN NewJob ELSE jobs[k]]
    /\ job_queue' = Append(job_queue, j)
    /\ UNCHANGED <<nworkers, processing_tasks, worker, task>>
    /\ UNCHANGED avars
    /\ UNCHANGED hvars
    /\ files' = WriteFile(files, <<"upload", j>>, time)
    /\ UNCHANGED <<time, result_reply, cleanup>>

\* the route create_job answers {"job_id": job_id, "status": "queued"}.  The
\* put of create_job has scheduled the wake-up of a worker waiting in get(),
\* and that worker's create_task the first step of the task: both are ahead
\* of the client's next request in the event loop.
CreateRespond(j) ==
    /\ j \in DOMAIN jobs
    /\ j \notin announced
    /\ ~(InQueue(j) /\ \E w \in WorkerIds : worker[w] = "get")
    /\ ~(\E w \in WorkerIds : task[w].job = j /\ task[w].pc = "start")
    /\ announced' = announced \cup {j}
    /\ UNCHANGED svars
    /\ UNCHANGED cancel_call
    /\ UNCHANGED hvars
    /\ UNCHANGED evars

\* --------------------------------------------------------------- _worker
\* top of "while True": job_id = await self.job_queue.get(); an empty queue
\* suspends the worker, otherwise get() returns at once and the worker goes
\* on to create the task and to suspend in "await task".  reg is the
\* registry the worker leaves behind.
WorkerLoop(w, reg) ==
    IF job_queue = << >>
    THEN /\ worker' = [worker EXCEPT ![w] = "get"]
         /\ task' = [task EXCEPT ![w] = NoTask]
         /\ processing_tasks' = reg
         /\ UNCHANGED job_queue
    ELSE LET job_id == Head(job_queue) IN
         /\ job_queue' = Tail(job_queue)
         /\ IF job_id \notin DOMAIN jobs
            THEN \* if not job: continue
                 /\ worker' = [worker EXCEPT ![w] = "get"]
                 /\ task' = [task EXCEPT ![w] = NoTask]
                 /\ processing_tasks' = reg
            ELSE /\ worker' = [worker EXCEPT ![w] = "await"]
                 /\ task' = [task EXCEPT ![w] =
                               [pc |-> "start", job |-> job_id, elapsed |-> 0]]
                 /\ processing_tasks' =
                        [k \in DOMAIN reg \cup {job_id} |->
                            IF k = job_id THEN w ELSE reg[k]]

\* a worker suspended in job_queue.get() is woken by a put
WorkerGet(w) ==
    /\ worker[w] = "get"
    /\ job_queue # << >>
    /\ WorkerLoop(w, processing_tasks)
    /\ UNCHANGED <<nworkers, jobs>>
    /\ UNCHANGED avars
    /\ UNCHANGED hvars
    /\ UNCHANGED evars

\* "await task" returns or raises: finally: processing_tasks.pop(job_id, None)
\* and task_done(); a cancelled task raises CancelledError out of the worker,
\* which neither "except Exception" catches
WorkerReap(w) ==
    /\ worker[w] = "await"
    /\ task[w].pc \in {"done", "cancelled"}
    /\ LET popped == [k \in DOMAIN processing_tasks \ {task[w].job} |->
                        processing_tasks[k]]
       IN IF task[w].pc = "cancelled"
          THEN /\ worker' = [worker EXCEPT ![w] = "dead"]
               /\ task' = [task EXCEPT ![w] = NoTask]
               /\ processing_tasks' = popped
               /\ UNCHANGED job_queue
          ELSE WorkerLoop(w, popped)
    /\ UNCHANGED <<nworkers, jobs>>
    /\ UNCHANGED avars
    /\ UNCHANGED hvars
    /\ UNCHANGED evars

\* ---------------------------------------------------------- _process_job
\* the retry test written with <= instead of <
Fail_OffByOne(w, kind) ==
    LET j == task[w].job
        retry == jobs[j].retry_count <= max_retries
    IN /\ jobs' = [jobs EXCEPT ![j].status = FAILED,
                               ![j].error_message = kind,
                               ![j].retry_count =
                                   IF retry THEN @ + 1 ELSE @]
       /\ task' = [task EXCEPT ![w].pc = IF retry THEN "retry_sleep" ELSE "done"]

\* except Exception as e: status = FAILED, error_message = str(e), and the
\* retry decision; the task then sleeps retry_delay or returns
Fail(w, kind) ==
    LET j == task[w].job
        retry == jobs[j].retry_count < max_retries
    IN /\ jobs' = [jobs EXCEPT ![j].status = FAILED,
                               ![j].error_message = kind,
                               ![j].retry_count =
                                   IF retry THEN @ + 1 ELSE @]
       /\ task' = [task EXCEPT ![w].pc = IF retry THEN "retry_sleep" ELSE "done"]

\* _process_job resuming after the last stage that succeeded
TaskStart_Resume(w) ==
    /\ task[w].pc = "start"
    /\ LET j == task[w].job IN
       /\ jobs' = [jobs EXCEPT ![j].status = UPLOADING,
                               ![j].started_at = TRUE,
                               ![j].progress = 10]
       /\ attempts' = [attempts EXCEPT ![j] = @ + 1]
       /\ task' = [task EXCEPT ![w].pc =
                                  IF j \in upload_ok THEN "submit" ELSE "upload"]
    /\ UNCHANGED <<nworkers, job_queue, processing_tasks, worker>>
    /\ UNCHANGED avars
    /\ UNCHANGED <<cancel_called, upload_ok, delay_cancelled, cancel_ok>>
    /\ UNCHANGED evars

\* first step of the task: status = UPLOADING, started_at, progress = 10,
\* then suspended in _upload_to_comfyui
TaskStart(w) ==
    /\ task[w].pc = "start"
    /\ LET j == task[w].job IN
       /\ jobs' = [jobs EXCEPT ![j].status = UPLOADING,
                               ![j].started_at = TRUE,
                               ![j].progress = 10]
       /\ attempts' = [attempts EXCEPT ![j] = @ + 1]
    /\ task' = [task EXCEPT ![w].pc = "upload"]
    /\ UNCHANGED <<nworkers, job_queue, processing_tasks, worker>>
    /\ UNCHANGED avars
    /\ UNCHANGED <<cancel_called, upload_ok, delay_cancelled, cancel_ok>>
    /\ UNCHANGED evars

\* _upload_to_comfyui returns or raises; on success progress = 30, the
\* workflow is generated, progress = 40, status = PROCESSING and the task
\* is suspended in _queue_workflow
UploadResult(w, ok) ==
    /\ task[w].pc = "upload"
    /\ LET j == task[w].job IN
       IF ok
       THEN /\ jobs' = [jobs EXCEPT ![j].progress = 40,
                                    ![j].status = PROCESSING]
            /\ task' = [task EXCEPT ![w].pc = "submit"]
            /\ upload_ok' = upload_ok \cup {j}
       ELSE /\ Fail(w, "error")
            /\ UNCHANGED upload_ok
    /\ UNCHANGED <<nworkers, job_queue, processing_tasks, worker>>
    /\ UNCHANGED avars
    /\ UNCHANGED <<attempts, cancel_called, delay_cancelled, cancel_ok>>
    /\ UNCHANGED evars

\* _queue_workflow returns the prompt id or raises; on success
\* comfy_prompt_id is set, progress = 50 and _wait_for_completion sends its
\* first GET /history (time.time() - start_time = 0 < max_wait)
SubmitResult(w, ok) ==
    /\ task[w].pc = "submit"
    /\ LET j == task[w].job IN
       IF ok
       THEN /\ jobs' = [jobs EXCEPT ![j].comfy_prompt_id = "prompt_id",
                                    ![j].progress = 50]
            /\ task' = [task EXCEPT ![w].pc = "poll_get", ![w].elapsed = 0]
       ELSE Fail(w, "error")
    /\ UNCHANGED <<nworkers, job_queue, processing_tasks, worker>>
    /\ UNCHANGED avars
    /\ UNCHANGED hvars
    /\ UNCHANGED evars

\* _wait_for_completion, the answer to GET /history: completed (return,
\* its start_time is gone, progress = 80, _download_result starts), not
\* completed or not 200
\* (progress from the elapsed time, sleep(2)), or the request raises
PollResponse(w, answer, dt) ==
    /\ task[w].pc = "poll_get"
    /\ LET j == task[w].job
           now == Min(PollTicks, task[w].elapsed + dt)
       IN CASE answer = "completed" ->
                 /\ jobs' = [jobs EXCEPT ![j].progress = 80]
                 /\ task' = [task EXCEPT ![w].pc = "download", ![w].elapsed = 0]
            [] answer = "running" ->
                 /\ jobs' = [jobs EXCEPT ![j].progress = PollProgress(now)]
                 /\ task' = [task EXCEPT ![w].pc = "poll_sleep", ![w].elapsed = now]
            [] OTHER -> Fail(w, "error")
    /\ UNCHANGED <<nworkers, job_queue, processing_tasks, worker>>
    /\ UNCHANGED avars
    /\ UNCHANGED hvars
    /\ UNCHANGED evars

\* _wait_for_completion returning instead of raising when the budget is spent
PollWake_TimeoutReturns(w, dt) ==
    /\ task[w].pc = "poll_sleep"
    /\ LET now == Min(PollTicks, task[w].elapsed + dt) IN
       IF now * (max_wait \div PollTicks) < max_wait
       THEN /\ task' = [task EXCEPT ![w].pc = "poll_get", ![w].elapsed = now]
            /\ UNCHANGED jobs
       ELSE /\ jobs' = [jobs EXCEPT ![task[w].job].progress = 80]
            /\ task' = [task EXCEPT ![w].pc = "download", ![w].elapsed = 0]
    /\ UNCHANGED <<nworkers, job_queue, processing_tasks, worker>>
    /\ UNCHANGED avars
    /\ UNCHANGED hvars
    /\ UNCHANGED evars

\* _wait_for_completion, sleep(2) is over: the loop condition
\* time.time() - start_time < max_wait, then the next GET or TimeoutError
PollWake(w, dt) ==
    /\ task[w].pc = "poll_sleep"
    /\ LET now == Min(PollTicks, task[w].elapsed + dt) IN
       IF now * (max_wait \div PollTicks) < max_wait
       THEN /\ task' = [task EXCEPT ![w].pc = "poll_get", ![w].elapsed = now]
            /\ UNCHANGED jobs
       ELSE Fail(w, "error")
    /\ UNCHANGED <<nworkers, job_queue, processing_tasks, worker>>
    /\ UNCHANGED avars
    /\ UNCHANGED hvars
    /\ UNCHANGED evars

\* _process_job assigning job.result_path before the download is known to
\* have succeeded
DownloadResult_PathFirst(w, ok) ==
    /\ task[w].pc = "download"
    /\ LET j == task[w].job IN
       IF ok
       THEN /\ jobs' = [jobs EXCEPT ![j].result_path = TRUE,
                                    ![j].progress = 100,
                                    ![j].status = COMPLETED,
                                    ![j].completed_at = TRUE]
            /\ task' = [task EXCEPT ![w].pc = "done"]
       ELSE LET retry == jobs[j].retry_count < max_retries IN
            /\ jobs' = [jobs EXCEPT ![j].result_path = TRUE,
                                    ![j].status = FAILED,
                                    ![j].error_message = "error",
                                    ![j].retry_count = IF retry THEN @ + 1 ELSE @]
            /\ task' = [task EXCEPT ![w].pc =
                                       IF retry THEN "retry_sleep" ELSE "done"]
    /\ UNCHANGED <<nworkers, job_queue, processing_tasks, worker>>
    /\ UNCHANGED avars
    /\ UNCHANGED hvars
    /\ files' = IF ok THEN WriteFile(files, <<"output", task[w].job>>, time) ELSE files
    /\ UNCHANGED <<time, result_reply, cleanup>>

\* _download_result returns the path or raises; on success result_path,
\* progress = 100, status = COMPLETED, completed_at, and the task returns
DownloadResult(w, ok) ==
    /\ task[w].pc = "download"
    /\ LET j == task[w].job IN
       IF ok
       THEN /\ jobs' = [jobs EXCEPT ![j].result_path = TRUE,
                                    ![j].progress = 100,
                                    ![j].status = COMPLETED,
                                    ![j].completed_at = TRUE]
            /\ task' = [task EXCEPT ![w].pc = "done"]
       ELSE Fail(w, "error")
    /\ UNCHANGED <<nworkers, job_queue, processing_tasks, worker>>
    /\ UNCHANGED avars
    /\ UNCHANGED hvars
    /\ files' = IF ok THEN WriteFile(files, <<"output", task[w].job>>, time) ELSE files
    /\ UNCHANGED <<time, result_reply, cleanup>>

\* queue_job that loses the identifier
queue_job_Drop(j) == job_queue

\* queue_job that puts the identifier twice
queue_job_Twice(j) == Append(Append(job_queue, j), j)

\* queue_job that puts the identifier at the head
queue_job_Front(j) == <<j>> \o job_queue

\* queue_job: if job_id in self.jobs: await self.job_queue.put(job_id)
queue_job(j) ==
    IF j \in DOMAIN jobs THEN Append(job_queue, j) ELSE job_queue

\* sleep(retry_delay) is over: await self.queue_job(job.id), the task returns
RetryWake(w) ==
    /\ task[w].pc = "retry_sleep"
    /\ job_queue' = queue_job(task[w].job)
    /\ task' = [task EXCEPT ![w].pc = "done"]
    /\ UNCHANGED <<nworkers, jobs, processing_tasks, worker>>
    /\ UNCHANGED avars
    /\ UNCHANGED hvars
    /\ UNCHANGED evars

\* ------------------------------------------------------------ cancel_job
\* cancel_job without the status test
Cancellable_Any == JobStatus

\* if job.status in [PENDING, UPLOADING, PROCESSING]
Cancellable == {PENDING, UPLOADING, PROCESSING}

\* self.processing_tasks[job_id].cancel(): CancelledError is thrown into the
\* task at the await it is suspended in; _process_job does not catch it
CancelTask(tk, reg, j) ==
    IF j \in DOMAIN reg /\ tk[reg[j]].pc \notin {"none", "done", "cancelled"}
    THEN [tk EXCEPT ![reg[j]].pc = "cancelled"]
    ELSE tk

\* cancel_job up to its first suspension: the checks, status = CANCELLED,
\* and either the DELETE request (suspends) or the rest of the function.
\* A client names an identifier it was given, or one that no job has.
CancelJob(c, id) ==
    /\ cancel_call[c].pc = "idle"
    /\ id \in DOMAIN jobs => id \in announced
    /\ cancel_called' = cancel_called \cup {id}
    /\ delay_cancelled' =
          IF \E w \in WorkerIds : task[w].job = id /\ task[w].pc = "retry_sleep"
          THEN delay_cancelled \cup {id} ELSE delay_cancelled
    /\ cancel_ok' =
          IF /\ id \in DOMAIN jobs
             /\ jobs[id].status \in Cancellable
             /\ jobs[id].comfy_prompt_id = None
          THEN cancel_ok \cup {id} ELSE cancel_ok
    /\ IF id \in DOMAIN jobs /\ jobs[id].status \in Cancellable
       THEN /\ jobs' = [jobs EXCEPT ![id].status = CANCELLED]
            /\ IF jobs[id].comfy_prompt_id # None
               THEN /\ cancel_call' = [cancel_call EXCEPT ![c] =
                                          [pc |-> "delete", job |-> id]]
                    /\ UNCHANGED task
               ELSE /\ task' = CancelTask(task, processing_tasks, id)
                    /\ cancel_call' = [cancel_call EXCEPT ![c] =
                                          [pc |-> "true", job |-> id]]
       ELSE /\ cancel_call' = [cancel_call EXCEPT ![c] =
                                  [pc |-> "false", job |-> id]]
            /\ UNCHANGED <<jobs, task>>
    /\ UNCHANGED <<nworkers, job_queue, processing_tasks, worker, announced>>
    /\ UNCHANGED <<attempts, upload_ok>>
    /\ UNCHANGED evars

\* the DELETE request answers 200, answers something else or raises: all
\* three are only logged; then the processing task is cancelled, return True
CancelDeleteReturn(c, outcome) ==
    /\ cancel_call[c].pc = "delete"
    /\ outcome \in {"ok", "not200", "raised"}
    /\ task' = CancelTask(task, processing_tasks, cancel_call[c].job)
    /\ cancel_call' = [cancel_call EXCEPT ![c].pc = "true"]
    /\ cancel_ok' = cancel_ok \cup {cancel_call[c].job}
    /\ UNCHANGED <<nworkers, jobs, job_queue, processing_tasks, worker, announced>>
    /\ UNCHANGED <<attempts, cancel_called, upload_ok, delay_cancelled>>
    /\ UNCHANGED evars

\* the route cancel_job: {"status": "cancelled"} or HTTPException(404)
CancelRespond(c) ==
    /\ cancel_call[c].pc \in {"true", "false"}
    /\ cancel_call' = [cancel_call EXCEPT ![c] = NoCall]
    /\ UNCHANGED announced
    /\ UNCHANGED svars
    /\ UNCHANGED hvars
    /\ UNCHANGED evars

\* ------------------------------------------------------------------ Next
Next ==
    \/ \E j \in JobIds : CreateJob(j)
    \/ \E j \in JobIds : CreateRespond(j)
    \/ \E w \in WorkerIds : WorkerGet(w)
    \/ \E w \in WorkerIds : WorkerReap(w)
    \/ \E w \in WorkerIds : TaskStart(w)
    \/ \E w \in WorkerIds, ok \in BOOLEAN : UploadResult(w, ok)
    \/ \E w \in WorkerIds, ok \in BOOLEAN : SubmitResult(w, ok)
    \/ \E w \in WorkerIds, a \in {"completed", "running", "error"}, dt \in 0..1 :
          PollResponse(w, a, dt)
    \/ \E w \in WorkerIds, dt \in 0..1 : PollWake(w, dt)
    \/ \E w \in WorkerIds, ok \in BOOLEAN : DownloadResult(w, ok)
    \/ \E w \in WorkerIds : RetryWake(w)
    \/ \E c \in CallIds, id \in JobIds : CancelJob(c, id)
    \/ \E c \in CallIds, o \in {"ok", "not200", "raised"} : CancelDeleteReturn(c, o)
    \/ \E c \in CallIds : CancelRespond(c)

Spec == Init /\ [][Next]_vars

\* -------------------------------------------------------- get_job_result
\* get_job_result answering every known job with the file
get_job_result_AnyStatus(id) ==
    IF id \notin DOMAIN jobs THEN "404" ELSE "FileResponse"

\* the route get_job_result: 404 without a job, 400 unless the job is
\* COMPLETED and has a result_path, else FileResponse(path=job.result_path)
get_job_result(id) ==
    IF id \notin DOMAIN jobs THEN "404"
    ELSE IF jobs[id].status # COMPLETED \/ ~jobs[id].result_path THEN "400"
    ELSE "FileResponse"

\* GET /api/jobs/{job_id}/result: server.get_job never suspends, so the
\* handler runs in one piece
GetJobResult(id) ==
    /\ result_reply = NoReply
    /\ id \in DOMAIN jobs => id \in announced
    /\ result_reply' = [job |-> id, code |-> get_job_result(id)]
    /\ UNCHANGED svars
    /\ UNCHANGED avars
    /\ UNCHANGED hvars
    /\ UNCHANGED <<files, time, cleanup>>

\* the answer has been sent
ResultRespond ==
    /\ result_reply # NoReply
    /\ result_reply' = NoReply
    /\ UNCHANGED svars
    /\ UNCHANGED avars
    /\ UNCHANGED hvars
    /\ UNCHANGED <<files, time, cleanup>>

\* the default configuration: CONFIG["max_concurrent_jobs"] = 1
DefaultInit == Init /\ nworkers = 1

ResultNext ==
    \/ Next
    \/ \E id \in JobIds : GetJobResult(id)
    \/ ResultRespond

ResultSpec == DefaultInit /\ [][ResultNext]_vars

\* --------------------------------------------------------- _cleanup_task
\* cleanup_days * 24 * 3600
RetentionWindow == cleanup_days * 24 * 3600

\* the clock is read after 1 second or after RetentionWindow seconds; t was
\* reached by Ticks(t) such advances
Ticks(t) == (t \div RetentionWindow) + (t % RetentionWindow)

\* time passes; the sleep(3600) of _cleanup_task is over once 3600 seconds
\* have passed.  (The poll loop counts its own elapsed time, task[w].elapsed.)
Tick(dt) ==
    /\ Ticks(time) < MaxTicks
    /\ time' = time + dt
    /\ cleanup' = IF dt >= 3600 THEN "run" ELSE cleanup
    /\ UNCHANGED svars
    /\ UNCHANGED avars
    /\ UNCHANGED hvars
    /\ UNCHANGED <<files, result_reply>>

\* the test written with <=
Stale_OrEqual(mtime, cutoff_time) == mtime <= cutoff_time

\* file.stat().st_mtime < cutoff_time
Stale(mtime, cutoff_time) == mtime < cutoff_time

\* a sweep that forgets the output directory
SweptDirs_UploadOnly == {"upload"}

\* the directories a cycle walks: upload_dir.rglob, then output_dir.rglob
SweptDirs == {"upload", "output"}

\* one cycle of _cleanup_task: cutoff_time, then unlink of every stale file
\* of both directories; nothing is awaited before the cycle's sleep(3600)
Sweep ==
    /\ cleanup = "run"
    /\ cleanup' = "sleep"
    /\ LET cutoff_time == time - RetentionWindow
           kept == {f \in DOMAIN files :
                       ~(f[1] \in SweptDirs /\ Stale(files[f], cutoff_time))}
       IN files' = [f \in kept |-> files[f]]
    /\ UNCHANGED svars
    /\ UNCHANGED avars
    /\ UNCHANGED hvars
    /\ UNCHANGED <<time, result_reply>>

\* _cleanup_task is started with the workers (CONFIG["cleanup_old_files"])
\* and runs beside the job pipeline; no job is cancelled here
SweepNext ==
    \/ \E j \in JobIds : CreateJob(j)
    \/ \E j \in JobIds : CreateRespond(j)
    \/ \E w \in WorkerIds : WorkerGet(w)
    \/ \E w \in WorkerIds : WorkerReap(w)
    \/ \E w \in WorkerIds : TaskStart(w)
    \/ \E w \in WorkerIds, ok \in BOOLEAN : UploadResult(w, ok)
    \/ \E w \in WorkerIds, ok \in BOOLEAN : SubmitResult(w, ok)
    \/ \E w \in WorkerIds, a \in {"completed", "running", "error"}, dt \in 0..1 :
          PollResponse(w, a, dt)
    \/ \E w \in WorkerIds, dt \in 0..1 : PollWake(w, dt)
    \/ \E w \in WorkerIds, ok \in BOOLEAN : DownloadResult(w, ok)
    \/ \E w \in WorkerIds : RetryWake(w)
    \/ \E dt \in {1, RetentionWindow} : Tick(dt)
    \/ Sweep

SweepSpec == DefaultInit /\ [][SweepNext]_vars

\* ---------------------------------------------------------------- fairness
\* The event loop runs every ready coroutine, every backend call returns,
\* every sleep ends and the poll loop's clock advances.  Requests of clients
\* (CreateJob, CancelJob) are under no obligation.
Fairness ==
    /\ \A w \in WorkerIds :
          /\ WF_vars(WorkerGet(w))
          /\ WF_vars(WorkerReap(w))
          /\ WF_vars(TaskStart(w))
          /\ WF_vars(\E ok \in BOOLEAN : UploadResult(w, ok))
          /\ WF_vars(\E ok \in BOOLEAN : SubmitResult(w, ok))
          /\ WF_vars(\E a \in {"completed", "running", "error"}, dt \in 0..1 :
                        PollResponse(w, a, dt))
          /\ WF_vars(\E dt \in 0..1 : PollWake(w, dt))
          /\ SF_vars(PollWake(w, 1))
          /\ WF_vars(\E ok \in BOOLEAN : DownloadResult(w, ok))
          /\ WF_vars(RetryWake(w))
    /\ \A j \in JobIds : WF_vars(CreateRespond(j))
    /\ \A c \in CallIds :
          /\ WF_vars(\E o \in {"ok", "not200", "raised"} : CancelDeleteReturn(c, o))
          /\ WF_vars(CancelRespond(c))

FairSpec == Init /\ [][Next]_vars /\ Fairness

\* ------------------------------------------------------------------ claims
\* an attempt on job j is in progress: its task was created and has not ended
InProgress(j) == \E w \in WorkerIds : task[w].job = j /\ ~TaskDone(w)

\* nothing is pending for job j: it is not queued and no attempt is running
AtRest(j) == ~InQueue(j) /\ ~InProgress(j)

\* the edges of the status table
Edge(a, b) ==
    \/ a = PENDING /\ b = UPLOADING
    \/ a = UPLOADING /\ b = PROCESSING
    \/ a = PROCESSING /\ b = COMPLETED
    \/ a \notin Terminal /\ b \in {FAILED, CANCELLED}

\* C1: every change of a job's status is an edge of the status table; no
\* status changes once it is Completed, Failed or Cancelled.
C1_StatusEdges ==
    [][\A j \in DOMAIN jobs :
          jobs'[j].status # jobs[j].status
             => Edge(jobs[j].status, jobs'[j].status)]_vars

\* C2: progress stays within [0, 100] and never decreases from one state to
\* the next, over all attempts on the job.
C2_ProgressMonotone ==
    [][\A j \in DOMAIN jobs :
          /\ jobs'[j].progress >= jobs[j].progress
          /\ jobs'[j].progress >= 0
          /\ jobs'[j].progress <= 100]_vars

\* the step is the except branch of an attempt on job j
FailureStep(j) ==
    \E w \in WorkerIds :
       /\ task[w].job = j
       /\ task[w].pc \in {"upload", "submit", "poll_get", "poll_sleep", "download"}
       /\ task'[w].pc \in {"retry_sleep", "done"}
       /\ jobs'[j].status = FAILED

\* C3: retry_count stays within 0..max_retries; it changes only by +1 and
\* only in a failure that is retried; a failure at retry_count = max_retries
\* leaves the job Failed, does not enqueue it, and the identifier is never
\* in the queue again nor the status changed.
C3_RetryBounded ==
    /\ [](\A j \in DOMAIN jobs :
             /\ jobs[j].retry_count \in 0..max_retries
             /\ attempts[j] = max_retries + 1 => ~InQueue(j))
    /\ [][\A j \in DOMAIN jobs :
             /\ jobs'[j].retry_count # jobs[j].retry_count
                   => /\ jobs'[j].retry_count = jobs[j].retry_count + 1
                      /\ FailureStep(j)
                      /\ \E w \in WorkerIds :
                            task[w].job = j /\ task'[w].pc = "retry_sleep"
             /\ FailureStep(j) /\ jobs[j].retry_count = max_retries
                   => /\ jobs'[j].status = FAILED
                      /\ jobs'[j].retry_count = max_retries
                      /\ attempts'[j] = max_retries + 1
                      /\ job_queue' = job_queue
                      /\ ~InProgress(j)'
             /\ jobs[j].status = FAILED /\ attempts[j] = max_retries + 1
                   => jobs'[j].status = FAILED /\ attempts'[j] = attempts[j]
       ]_vars

\* a job whose retries are exhausted
C3_Witness ==
    \E j \in DOMAIN jobs :
       /\ jobs[j].status = FAILED
       /\ jobs[j].retry_count = max_retries
       /\ attempts[j] = max_retries + 1
       /\ AtRest(j)

\* C4: at most nworkers jobs have an attempt in progress, a fortiori at
\* most nworkers of them with status Uploading or Processing; with one
\* worker no attempt starts while another job's attempt is in progress.
C4_AtMostW ==
    /\ Cardinality({j \in DOMAIN jobs : InProgress(j)}) <= nworkers
    /\ Cardinality({j \in DOMAIN jobs :
                       /\ jobs[j].status \in {UPLOADING, PROCESSING}
                       /\ \E w \in WorkerIds : worker[w] = "await" /\ task[w].job = j
                   }) <= nworkers

\* one worker, one job in Processing, a second one waiting in the queue
C4_Witness ==
    /\ nworkers = 1
    /\ \E j, k \in DOMAIN jobs :
          /\ j # k
          /\ InProgress(j) /\ jobs[j].status = PROCESSING
          /\ InQueue(k) /\ jobs[k].status = PENDING

\* C5: when cancel_job returns True the job's status is Cancelled.
C5_CancelledOnReturn ==
    [][\A c \in CallIds :
          cancel_call[c].pc # "true" /\ cancel_call'[c].pc = "true"
             => jobs'[cancel_call'[c].job].status = CANCELLED]_vars

\* C6: cancel_job on an unknown identifier or on a job in a terminal status
\* returns False, sends no backend DELETE and changes neither the jobs, the
\* queue, the task registry nor any task or worker.
C6_RejectedCancel ==
    [][\A c \in CallIds :
          LET id == cancel_call'[c].job IN
          /\ cancel_call[c].pc = "idle"
          /\ cancel_call'[c].pc # "idle"
          /\ (id \notin DOMAIN jobs \/ jobs[id].status \in Terminal)
          => /\ cancel_call'[c].pc = "false"
             /\ UNCHANGED <<jobs, job_queue, processing_tasks, task, worker>>
      ]_vars

\* cancel_job has just refused a Completed job
C6_Witness ==
    \E c \in CallIds :
       /\ cancel_call[c].pc = "false"
       /\ cancel_call[c].job \in DOMAIN jobs
       /\ jobs[cancel_call[c].job].status = COMPLETED

\* C7: every job that was put on the queue is eventually in a terminal
\* status for good.
C7_EventuallyTerminal ==
    \A j \in JobIds :
       [](j \in DOMAIN jobs
            => <>[](j \in DOMAIN jobs /\ jobs[j].status \in Terminal))

\* C8: all nworkers workers are alive in every reachable state.
C8_WorkersLive ==
    Cardinality({w \in WorkerIds : worker[w] \in {"get", "await"}}) = nworkers

\* C9: a job for which cancel_job was called during its retry delay is not
\* enqueued again and no further attempt on it starts.
C9_NoRequeueAfterCancel ==
    [][\A j \in delay_cancelled' :
          /\ ~InQueue(j)'
          /\ attempts'[j] = attempts[j]]_vars

C11_ResultPathIffCompleted ==
    \A j \in DOMAIN jobs : jobs[j].result_path <=> jobs[j].status = COMPLETED

\* a job completed by a retried attempt, cancel_job having been called on it
C11_Witness ==
    \E j \in DOMAIN jobs :
       /\ jobs[j].status = COMPLETED
       /\ jobs[j].result_path
       /\ jobs[j].retry_count > 0
       /\ j \in cancel_called

\* C12: a result request is answered with the file only for a job whose
\* status is Completed at the time of the request; for an unknown identifier
\* or a job in any other status it is answered 404 or 400 and the step
\* changes nothing but the answer.
C12_ResultOnlyWhenCompleted ==
    [][result_reply = NoReply /\ result_reply' # NoReply
          => LET id == result_reply'.job
                 code == result_reply'.code
             IN /\ code = "FileResponse"
                      => id \in DOMAIN jobs /\ jobs[id].status = COMPLETED
                /\ id \notin DOMAIN jobs \/ jobs[id].status # COMPLETED
                      => /\ code \in {"404", "400"}
                         /\ UNCHANGED <<svars, avars, hvars, files, time, cleanup>>
      ]_vars

\* the result of a Cancelled job has been asked for and refused
C12_Witness ==
    /\ result_reply.code = "400"
    /\ result_reply.job \in DOMAIN jobs
    /\ jobs[result_reply.job].status = CANCELLED

\* C13: a step deletes a file only if the file's st_mtime is strictly less
\* than time - RetentionWindow; a file with st_mtime at or after that cutoff
\* survives every step.
C13_SweepOnlyStale ==
    [][\A f \in DOMAIN files :
          f \notin DOMAIN files' => files[f] < time - RetentionWindow]_vars

\* a cycle has deleted the upload file of one job and has kept a file whose
\* st_mtime is exactly the cutoff
C13_Witness ==
    /\ cleanup = "sleep"
    /\ \E j \in DOMAIN jobs : <<"upload", j>> \notin DOMAIN files
    /\ \E f \in DOMAIN files : files[f] = time - RetentionWindow

\* the result files that have aged past the retention window
AgedResults ==
    {f \in DOMAIN files : f[1] = "output" /\ files[f] < time - RetentionWindow}

\* C14: a sweep cycle removes every result file that has aged past the
\* retention window (all of them when all have) and leaves jobs as it was.
C14_SweepRemovesAgedResults ==
    [][cleanup = "run" /\ cleanup' = "sleep"
          => /\ \A f \in AgedResults : f \notin DOMAIN files'
             /\ jobs' = jobs]_vars

\* every job is Completed with its result_path set, and a cycle has removed
\* the result file of each
C14_Witness ==
    /\ cleanup = "sleep"
    /\ DOMAIN jobs = JobIds
    /\ \A j \in JobIds :
          /\ jobs[j].status = COMPLETED
          /\ jobs[j].result_path
          /\ <<"output", j>> \notin DOMAIN files

\* the attempts on job j that are in progress
Attempts(j) == {w \in WorkerIds : task[w].job = j /\ ~TaskDone(w)}

\* C15: for every job at most one attempt is in progress at any time.
C15_OneAttemptPerJob ==
    \A j \in DOMAIN jobs : Cardinality(Attempts(j)) <= 1

\* a retried job being attempted by one worker while the worker that ran the
\* failed attempt has not yet returned from "await task"
C15_Witness ==
    \E j \in DOMAIN jobs : \E w1, w2 \in WorkerIds :
       /\ w1 # w2
       /\ worker[w1] = "await" /\ task[w1].job = j /\ task[w1].pc = "done"
       /\ worker[w2] = "await" /\ task[w2].job = j /\ ~TaskDone(w2)
       /\ jobs[j].retry_count > 0

\* C16: cancel_job on a job whose status is Processing sends the backend
\* DELETE and sets the status Cancelled, and whatever the DELETE's outcome
\* cancel_job then returns True.
C16_ProcessingCancelCallsBackend ==
    [][\A c \in CallIds :
          /\ (LET id == cancel_call'[c].job IN
                 /\ cancel_call[c].pc = "idle"
                 /\ cancel_call'[c].pc # "idle"
                 /\ id \in DOMAIN jobs
                 /\ jobs[id].status = PROCESSING
                 => /\ cancel_call'[c].pc = "delete"
                    /\ jobs'[id].status = CANCELLED)
          /\ (cancel_call[c].pc = "delete" /\ cancel_call'[c] # cancel_call[c]
                 => cancel_call'[c].pc = "true")
      ]_vars

\* job j was never cancelled and the backend has refused it nothing: no
\* upload, submission, poll or download of it failed or timed out
Unhindered(j) ==
    /\ j \in DOMAIN jobs
    /\ j \notin cancel_called
    /\ jobs[j].error_message = None

\* C17: a job that is never cancelled and whose backend calls all succeed in
\* time is eventually Completed with progress 100, result_path and
\* completed_at set and retry_count 0.
C17_HappyPathCompletes ==
    \A j \in JobIds :
       [](j \in DOMAIN jobs =>
             <>(\/ ~Unhindered(j)
                \/ /\ jobs[j].status = COMPLETED
                   /\ jobs[j].progress = 100
                   /\ jobs[j].result_path
                   /\ jobs[j].completed_at
                   /\ jobs[j].retry_count = 0))

\* the task positions at which a pipeline stage has been started
Stages == {"upload", "submit", "poll_get", "download"}

\* C18: for a job whose status is Cancelled no step begins an attempt or
\* starts a pipeline stage.
C18_NoStageAfterCancel ==
    [][\A j \in DOMAIN jobs :
          jobs[j].status = CANCELLED
             => /\ attempts'[j] = attempts[j]
                /\ \A w \in WorkerIds :
                      task'[w].job = j /\ task'[w] # task[w]
                         => task'[w].pc \notin Stages \cup {"start"}]_vars

\* C19: comfy_prompt_id is set whenever the status is Processing and is not
\* set while the status is Pending or Uploading.
C19_HandleIffSubmitted ==
    \A j \in DOMAIN jobs :
       /\ jobs[j].status = PROCESSING => jobs[j].comfy_prompt_id # None
       /\ jobs[j].status \in {PENDING, UPLOADING} => jobs[j].comfy_prompt_id = None

\* C20: a Completed job has no error_message, and a job that is Failed with
\* its retries exhausted has one.
C20_ErrorClearedOnSuccess ==
    \A j \in DOMAIN jobs :
       /\ jobs[j].status = COMPLETED => jobs[j].error_message = None
       /\ jobs[j].status = FAILED /\ attempts[j] = max_retries + 1 /\ AtRest(j)
             => jobs[j].error_message # None

\* the step is the end of job j's poll loop by exhaustion of max_wait
TimeoutStep(j) ==
    \E w \in WorkerIds :
       /\ task[w].job = j
       /\ task[w].pc = "poll_sleep"
       /\ task'[w].pc \notin {"poll_sleep", "poll_get", "cancelled"}

\* the step is the end of the retry delay of an attempt on job j
RetryStep(j) ==
    \E w \in WorkerIds :
       /\ task[w].job = j
       /\ task[w].pc = "retry_sleep"
       /\ task'[w].pc = "done"

\* C21: when the poll loop exhausts max_wait the attempt fails as any stage
\* does: the status is Failed, with retry_count < max_retries the count is
\* incremented and the identifier is appended to the queue after the retry
\* delay, otherwise the count stays and the attempt is over with nothing
\* queued; the download is not started.
C21_PollTimeoutIsFailure ==
    [][\A j \in DOMAIN jobs :
          /\ TimeoutStep(j)
                => /\ jobs'[j].status = FAILED
                   /\ jobs'[j].error_message # None
                   /\ \A w \in WorkerIds :
                         task[w].job = j /\ task[w].pc = "poll_sleep"
                            => task'[w].pc =
                                  IF jobs[j].retry_count < max_retries
                                  THEN "retry_sleep" ELSE "done"
                   /\ jobs'[j].retry_count =
                         IF jobs[j].retry_count < max_retries
                         THEN jobs[j].retry_count + 1 ELSE jobs[j].retry_count
                   /\ job_queue' = job_queue
          /\ RetryStep(j) => job_queue' = Append(job_queue, j)
      ]_vars

\* the poll of a job has timed out (only then an attempt ends with the poll
\* loop's clock at max_wait) and the identifier is back in the queue
C21_Witness ==
    \E w \in WorkerIds :
       /\ task[w].pc = "done"
       /\ task[w].elapsed * (max_wait \div PollTicks) >= max_wait
       /\ InQueue(task[w].job)
       /\ jobs[task[w].job].status = FAILED
       /\ jobs[task[w].job].retry_count = 1

\* the order of the positions of an attempt: the stages upload, submit, poll
\* (the request and the sleep between two requests) and download, each
\* entered from the one before, and the ways an attempt ends
StageOrder(a, b) ==
    \/ a = "start" /\ b = "upload"
    \/ a = "upload" /\ b = "submit"
    \/ a = "submit" /\ b = "poll_get"
    \/ a = "poll_get" /\ b \in {"poll_sleep", "download"}
    \/ a = "poll_sleep" /\ b = "poll_get"
    \/ a = "download" /\ b = "done"
    \/ a \in Stages \cup {"poll_sleep"} /\ b \in {"retry_sleep", "done"}
    \/ a = "retry_sleep" /\ b = "done"
    \/ a \notin {"none", "done", "cancelled"} /\ b = "cancelled"

\* C22: within an attempt the stages run in the order upload, submit, poll,
\* download, each entered only from the one before; a new attempt, first or
\* retried, is created at its beginning and enters upload first.
C22_StagesInOrder ==
    [][\A w \in WorkerIds :
          task'[w] # task[w]
             => \/ task'[w] = NoTask
                \/ task'[w].pc = "start" /\ TaskDone(w)
                \/ /\ task'[w].job = task[w].job
                   /\ task'[w].pc # task[w].pc => StageOrder(task[w].pc, task'[w].pc)
      ]_vars

\* a retried attempt is uploading again although an earlier attempt on the
\* job had uploaded successfully
C22_Witness ==
    \E w \in WorkerIds :
       /\ task[w].pc = "upload"
       /\ task[w].job \in upload_ok
       /\ jobs[task[w].job].retry_count > 0

\* the step creates an attempt for worker w
AttemptBegins(w) == task'[w].pc = "start" /\ task'[w] # task[w]

\* C23: the queue changes only by an append at its tail or by the removal of
\* its head; create_job and the retry append the identifier at the tail; an
\* attempt begins on the identifier that was the head; and with one worker
\* the first attempts begin in the order in which the jobs were created.
C23_QueueFIFO ==
    /\ [](nworkers = 1 =>
             \A j, k \in DOMAIN jobs : j < k /\ attempts[k] > 0 => attempts[j] > 0)
    /\ [][/\ \/ job_queue' = job_queue
             \/ \E j \in JobIds : job_queue' = Append(job_queue, j)
             \/ job_queue # << >> /\ job_queue' = Tail(job_queue)
          /\ \A j \in JobIds :
                j \notin DOMAIN jobs /\ j \in DOMAIN jobs'
                   => job_queue' = Append(job_queue, j)
          /\ \A j \in DOMAIN jobs :
                RetryStep(j) => job_queue' = Append(job_queue, j)
          /\ \A w \in WorkerIds :
                AttemptBegins(w)
                   => /\ job_queue # << >>
                      /\ task'[w].job = Head(job_queue)
                      /\ job_queue' = Tail(job_queue)
        ]_vars

\* one worker: a retried job has been appended behind a job that was
\* waiting in the queue
C23_Witness ==
    /\ nworkers = 1
    /\ Len(job_queue) = 2
    /\ jobs[job_queue[1]].status = PENDING
    /\ jobs[job_queue[2]].status = FAILED
    /\ jobs[job_queue[2]].retry_count > 0

\* C24: an identifier has an entry in processing_tasks exactly when a worker
\* is awaiting an attempt on that job, and the entry is that worker's task.
C24_RegistryExact ==
    \A j \in JobIds :
       /\ j \in DOMAIN processing_tasks
             <=> \E w \in WorkerIds : worker[w] = "await" /\ task[w].job = j
       /\ \A w \in WorkerIds :
             worker[w] = "await" /\ task[w].job = j /\ ~TaskDone(w)
                => j \in DOMAIN processing_tasks /\ processing_tasks[j] = w

\* C25: once cancel_job has returned True for a job, no step increases the
\* job's retry_count, sets its status to Failed or puts its identifier on
\* the queue.
C25_CancelConsumesNoRetry ==
    [][\A j \in cancel_ok :
          /\ jobs'[j].retry_count = jobs[j].retry_count
          /\ jobs'[j].status = FAILED => jobs[j].status = FAILED
          /\ job_queue' # Append(job_queue, j)]_vars

====
